---- MODULE Spec2Model ----
(***************************************************************************)
(* Model of the endpoint compliance agent: the collector facade (osquery   *)
(* backed collector and fallback text collector), the daemon lifecycle     *)
(* manager EnsureOSQueryRunning, and the run performed by main.            *)
(*                                                                         *)
(* Text is modelled after splitting: a tool output is the sequence of its  *)
(* lines (strings.Split(output, "\n")), and a line is the sequence of its  *)
(* fields (strings.Fields, or strings.Split(line, ":") for getent); the    *)
(* empty line is <<>>.                                                     *)
(***************************************************************************)
EXTENDS Integers, Sequences, FiniteSets, TLC

\* ------------------------------------------------------------------ bounds
\* longest tool output (in lines) handed to a collector called directly
MaxLines == 3
\* longest tool output (in lines) and backend reply (in rows) during a run
MaxRunLines == 1
\* longest port listing (in lines or rows) during a run
MaxRunPorts == 2
\* limits tried on the bounded operations: MinLimit..MaxLimit
MaxLimit == 3
MinLimit == 0 - 5

\* ------------------------------------------------------- program constants
DefaultProcessLimit == 50
DefaultPackageLimit == 100
MainProcessLimit == 25
MainPackageLimit == 200
MinUserFields == 7
MinProcessFields == 11
MinPackageFields == 3
MinNetstatFields == 4

GOOSValues == {"darwin", "linux", "windows"}
GOARCH == "amd64"

\* ------------------------------------------------------------ sample text
\* getent passwd lines, split on ":"
UserLines ==
    { <<>>,
      <<"root", "x", "0", "0", "root", "/root", "/bin/bash">>,
      <<"alice", "x", "1000", "1000", "Alice", "/home/alice", "/bin/sh">>,
      <<"bob", "x", "1001">> }

\* ps aux lines, split on white space; every output starts with the header
PsHeader ==
    <<"USER", "PID", "%CPU", "%MEM", "VSZ", "RSS", "TTY", "STAT", "START",
      "TIME", "COMMAND">>

PsLines ==
    { <<>>,
      <<"root", "1", "0.0", "0.1", "100", "10", "?", "Ss", "10:00", "0:01",
        "/sbin/init">>,
      <<"alice", "42", "0.5", "0.2", "200", "20", "pts/0", "S", "10:01",
        "0:00", "sshd", "-D">>,
      <<"bob", "77", "0.0", "0.0", "300", "30", "?", "S", "10:02", "0:00">> }

\* netstat -tuln lines: white-space fields, each split on ":"
NetstatLines ==
    { <<>>,
      << <<"Proto">>, <<"Recv-Q">>, <<"Send-Q">>, <<"Local">>,
         <<"Address">> >>,
      << <<"tcp">>, <<"0">>, <<"0">>, <<"0.0.0.0", "8080">>,
         <<"0.0.0.0", "*">>, <<"LISTEN">> >>,
      << <<"tcp6">>, <<"0">>, <<"0">>, <<"", "", "", "22">>,
         <<"", "", "", "*">>, <<"LISTEN">> >>,
      << <<"udp">>, <<"0">>, <<"0">>, <<"0.0.0.0", "68">>,
         <<"0.0.0.0", "*">> >>,
      << <<"tcp">>, <<"0">>, <<"0">>, <<"0.0.0.0", "*">>,
         <<"0.0.0.0", "*">>, <<"LISTEN">> >>,
      << <<"tcp">>, <<"0">>, <<"0.0.0.0", "0">> >> }

\* brew list --formula lines: one bare name per line ("" is the empty line)
BrewLines == { "", "wget", "jq" }

\* dpkg -l lines, split on white space
DpkgLines ==
    { <<>>,
      <<"Desired=Unknown/Install/Remove/Purge/Hold">>,
      <<"ii", "bash", "5.2", "amd64", "shell">>,
      <<"ii", "curl", "8.5", "amd64", "client">>,
      <<"rc", "oldpkg", "1.0", "amd64", "gone">>,
      <<"ii", "broken">> }

\* the lines and rows the environment produces during a run of main
RunUserLines == UserLines \ {<<>>}
RunPsLines == { l \in PsLines : Len(l) \in {10, 11} }
RunNetstatLines == { l \in NetstatLines : Len(l) \in 5..6 /\ Len(l[4]) # 2 }
               \cup { l \in NetstatLines : Len(l) = 6 /\ l[4][2] = "8080" }
RunBrewLines == { "", "wget" }
RunDpkgLines == { l \in DpkgLines : Len(l) > 1 /\ l[2] \in {"bash", "broken"} }

\* all sequences over S of length 0..n
SeqsUpTo(S, n) == UNION { [1..k -> S] : k \in 0..n }

\* ------------------------------------------------- library functions used
\* strings.Join(parts, sep) over the sample tokens
RECURSIVE Join(_, _)
Join(parts, sep) ==
    IF parts = <<>> THEN ""
    ELSE IF Len(parts) = 1 THEN Head(parts)
    ELSE Head(parts) \o sep \o Join(Tail(parts), sep)

\* strconv.Atoi over the sample tokens: ok is FALSE on a parse error
Atoi(s) ==
    CASE s = "8080" -> [ok |-> TRUE, v |-> 8080]
      [] s = "22" -> [ok |-> TRUE, v |-> 22]
      [] s = "68" -> [ok |-> TRUE, v |-> 68]
      [] s = "443" -> [ok |-> TRUE, v |-> 443]
      [] s = "0" -> [ok |-> TRUE, v |-> 0]
      [] s = "-1" -> [ok |-> TRUE, v |-> 0 - 1]
      [] OTHER -> [ok |-> FALSE, v |-> 0]

\* fmt.Sscanf(s, "%d", &p) over the sample tokens: the value left in p,
\* which stays 0 when no leading integer can be scanned
Sscanf(s) ==
    CASE s = "8080" -> 8080
      [] s = "22" -> 22
      [] s = "68" -> 68
      [] s = "443" -> 443
      [] s = "80abc" -> 80
      [] s = "-1" -> 0 - 1
      [] OTHER -> 0

\* strings.Contains(line, "LISTEN") || strings.Contains(line, "tcp")
ContainsMarker(line) ==
    \E i \in 1..Len(line) : \E j \in 1..Len(line[i]) :
        line[i][j] \in {"LISTEN", "tcp", "tcp6"}

\* strings.HasPrefix(line, "ii") for a line given by its fields
HasPrefixII(line) == Len(line) > 0 /\ line[1] = "ii"

\* ----------------------------------------------------- fallback collector
FallbackUserRowDarwin(line) ==
    [username |-> line, uid |-> "0", gid |-> "0", description |-> "User",
     directory |-> "/Users/" \o line, shell |-> "/bin/bash"]

FallbackUserRowLinux(parts) ==
    [username |-> parts[1], uid |-> parts[3], gid |-> parts[4],
     description |-> parts[5], directory |-> parts[6], shell |-> parts[7]]

\* variant: the first malformed line ends the loop
RECURSIVE FallbackUsersLoopAbort(_, _, _, _)
FallbackUsersLoopAbort(goos, lines, i, users) ==
    IF i > Len(lines) THEN users
    ELSE IF lines[i] = <<>>
         THEN FallbackUsersLoopAbort(goos, lines, i + 1, users)
    ELSE IF goos = "darwin"
         THEN FallbackUsersLoopAbort(goos, lines, i + 1,
                  Append(users, FallbackUserRowDarwin(Join(lines[i], ":"))))
    ELSE IF Len(lines[i]) >= MinUserFields
         THEN FallbackUsersLoopAbort(goos, lines, i + 1,
                  Append(users, FallbackUserRowLinux(lines[i])))
    ELSE users

RECURSIVE FallbackUsersLoop(_, _, _, _)
FallbackUsersLoop(goos, lines, i, users) ==
    IF i > Len(lines) THEN users
    ELSE IF lines[i] = <<>> THEN FallbackUsersLoop(goos, lines, i + 1, users)
    ELSE IF goos = "darwin"
         THEN FallbackUsersLoop(goos, lines, i + 1,
                  Append(users, FallbackUserRowDarwin(Join(lines[i], ":"))))
    ELSE IF Len(lines[i]) >= MinUserFields
         THEN FallbackUsersLoop(goos, lines, i + 1,
                  Append(users, FallbackUserRowLinux(lines[i])))
    ELSE FallbackUsersLoop(goos, lines, i + 1, users)

\* cmdOK: the utility could be run and exited with status 0
FallbackCollectUsers(goos, cmdOK, lines) ==
    IF goos \in {"darwin", "linux"}
    THEN IF ~cmdOK THEN [rows |-> <<>>, err |-> "exec"]
         ELSE [rows |-> FallbackUsersLoop(goos, lines, 1, <<>>), err |-> "nil"]
    ELSE [rows |-> <<>>, err |-> "nil"]

FallbackProcessRow(fields) ==
    [pid |-> fields[2], name |-> fields[11], path |-> fields[11],
     cmdline |-> Join(SubSeq(fields, 11, Len(fields)), " "),
     uid |-> fields[1]]

\* variant: the cutoff test is count > limit
RECURSIVE FallbackProcessesLoopOffByOne(_, _, _, _, _)
FallbackProcessesLoopOffByOne(lines, limit, i, count, processes) ==
    IF i > Len(lines) THEN processes
    ELSE IF i = 1 \/ lines[i] = <<>> \/ count > limit
         THEN FallbackProcessesLoopOffByOne(lines, limit, i + 1, count,
                                            processes)
    ELSE IF Len(lines[i]) >= MinProcessFields
         THEN FallbackProcessesLoopOffByOne(lines, limit, i + 1, count + 1,
                  Append(processes, FallbackProcessRow(lines[i])))
    ELSE FallbackProcessesLoopOffByOne(lines, limit, i + 1, count, processes)

RECURSIVE FallbackProcessesLoop(_, _, _, _, _)
FallbackProcessesLoop(lines, limit, i, count, processes) ==
    IF i > Len(lines) THEN processes
    ELSE IF i = 1 \/ lines[i] = <<>> \/ count >= limit
         THEN FallbackProcessesLoop(lines, limit, i + 1, count, processes)
    ELSE IF Len(lines[i]) >= MinProcessFields
         THEN FallbackProcessesLoop(lines, limit, i + 1, count + 1,
                  Append(processes, FallbackProcessRow(lines[i])))
    ELSE FallbackProcessesLoop(lines, limit, i + 1, count, processes)

FallbackCollectProcesses(goos, limit, cmdOK, lines) ==
    IF goos \in {"darwin", "linux"}
    THEN IF ~cmdOK THEN [rows |-> <<>>, err |-> "exec"]
         ELSE [rows |-> FallbackProcessesLoop(lines, limit, 1, 0, <<>>),
               err |-> "nil"]
    ELSE [rows |-> <<>>, err |-> "nil"]

\* variant: the port is taken after the first colon instead of the last
RECURSIVE FallbackPortsLoopFirstColon(_, _, _)
FallbackPortsLoopFirstColon(lines, i, ports) ==
    IF i > Len(lines) THEN ports
    ELSE LET fields == lines[i]
             addr == fields[4]
             port == Atoi(addr[2])
         IN IF /\ ContainsMarker(fields)
               /\ Len(fields) >= MinNetstatFields
               /\ Len(addr) > 1
               /\ port.ok
               /\ port.v > 0
            THEN FallbackPortsLoopFirstColon(lines, i + 1,
                                             Append(ports, port.v))
            ELSE FallbackPortsLoopFirstColon(lines, i + 1, ports)

\* CollectOpenPorts: the loop over the lines of netstat -tuln
RECURSIVE FallbackPortsLoop(_, _, _)
FallbackPortsLoop(lines, i, ports) ==
    IF i > Len(lines) THEN ports
    ELSE LET fields == lines[i]
             addr == fields[4]
             port == Atoi(addr[Len(addr)])
         IN IF /\ ContainsMarker(fields)
               /\ Len(fields) >= MinNetstatFields
               /\ Len(addr) > 1
               /\ port.ok
               /\ port.v > 0
            THEN FallbackPortsLoop(lines, i + 1, Append(ports, port.v))
            ELSE FallbackPortsLoop(lines, i + 1, ports)

FallbackCollectOpenPorts(goos, cmdOK, lines) ==
    IF goos \in {"darwin", "linux"}
    THEN IF ~cmdOK THEN [rows |-> <<>>, err |-> "exec"]
         ELSE [rows |-> FallbackPortsLoop(lines, 1, <<>>), err |-> "nil"]
    ELSE [rows |-> <<>>, err |-> "nil"]

RECURSIVE FallbackBrewLoop(_, _, _, _, _)
FallbackBrewLoop(lines, limit, i, count, packages) ==
    IF i > Len(lines) THEN packages
    ELSE IF lines[i] = "" \/ count >= limit
         THEN FallbackBrewLoop(lines, limit, i + 1, count, packages)
    ELSE FallbackBrewLoop(lines, limit, i + 1, count + 1,
             Append(packages, [name |-> lines[i], version |-> "unknown",
                               source |-> "homebrew", arch |-> GOARCH]))

RECURSIVE FallbackDpkgLoop(_, _, _, _, _)
FallbackDpkgLoop(lines, limit, i, count, packages) ==
    IF i > Len(lines) THEN packages
    ELSE IF /\ HasPrefixII(lines[i])
            /\ count < limit
            /\ Len(lines[i]) >= MinPackageFields
         THEN FallbackDpkgLoop(lines, limit, i + 1, count + 1,
                  Append(packages, [name |-> lines[i][2],
                                    version |-> lines[i][3],
                                    source |-> "dpkg", arch |-> GOARCH]))
    ELSE FallbackDpkgLoop(lines, limit, i + 1, count, packages)

\* found: exec.LookPath of the package manager succeeded
\* variant: the error of the package manager's invocation is returned, as
\* the other fallback operations do with theirs
FallbackCollectPackagesPropagate(goos, limit, found, cmdOK, lines) ==
    IF goos \in {"darwin", "linux"} /\ found /\ ~cmdOK
    THEN [rows |-> <<>>, err |-> "exec"]
    ELSE IF goos = "darwin" /\ found
    THEN [rows |-> FallbackBrewLoop(lines, limit, 1, 0, <<>>), err |-> "nil"]
    ELSE IF goos = "linux" /\ found
    THEN [rows |-> FallbackDpkgLoop(lines, limit, 1, 0, <<>>), err |-> "nil"]
    ELSE [rows |-> <<>>, err |-> "nil"]

\* CollectPackages: brew on darwin, dpkg on linux, nothing elsewhere
FallbackCollectPackages(goos, limit, found, cmdOK, lines) ==
    IF goos = "darwin" /\ found /\ cmdOK
    THEN [rows |-> FallbackBrewLoop(lines, limit, 1, 0, <<>>), err |-> "nil"]
    ELSE IF goos = "linux" /\ found /\ cmdOK
    THEN [rows |-> FallbackDpkgLoop(lines, limit, 1, 0, <<>>), err |-> "nil"]
    ELSE [rows |-> <<>>, err |-> "nil"]

\* ------------------------------------------------------- osquery collector
\* rows the backend can reply with
BackendUserRows ==
    { [username |-> "root", uid |-> "0", gid |-> "0", description |-> "root",
       directory |-> "/root", shell |-> "/bin/bash"],
      [username |-> "alice", uid |-> "1000", gid |-> "1000",
       description |-> "Alice", directory |-> "/home/alice",
       shell |-> "/bin/sh"] }

BackendProcessRows ==
    { [pid |-> "1", name |-> "init", path |-> "/sbin/init",
       cmdline |-> "/sbin/init", uid |-> "0"],
      [pid |-> "42", name |-> "sshd", path |-> "/usr/sbin/sshd",
       cmdline |-> "sshd -D", uid |-> "1000"] }

BackendPortRows ==
    { [port |-> "8080"], [port |-> "22"], [port |-> "0"], [port |-> "http"],
      [port |-> "-1"], [port |-> "80abc"] }

BackendPackageRows ==
    { [name |-> "bash", version |-> "5.2", source |-> "dpkg",
       arch |-> "amd64"],
      [name |-> "curl", version |-> "8.5", source |-> "dpkg",
       arch |-> "amd64"] }

RunUserRows == BackendUserRows
RunProcessRows == { r \in BackendProcessRows : r.pid = "1" }
RunPortRows == { r \in BackendPortRows : r.port \in {"8080", "22", "http"} }
RunPackageRows == { r \in BackendPackageRows : r.name = "bash" }

\* what the socket does with one call: conn is the result of
\* osquery.NewClient, transport the result of client.Query, status the
\* reply's Status (present = FALSE is a nil Status)
NoConnection ==
    [conn |-> FALSE, transport |-> FALSE,
     status |-> [present |-> FALSE, code |-> 0], rows |-> <<>>]

TransportError ==
    [conn |-> TRUE, transport |-> FALSE,
     status |-> [present |-> FALSE, code |-> 0], rows |-> <<>>]

Replies(rowSeqs) ==
    {NoConnection, TransportError}
    \cup { [conn |-> TRUE, transport |-> TRUE,
            status |-> [present |-> TRUE, code |-> 1], rows |-> <<>>] }
    \cup { [conn |-> TRUE, transport |-> TRUE, status |-> st, rows |-> rs] :
             st \in { [present |-> FALSE, code |-> 0],
                      [present |-> TRUE, code |-> 0] },
             rs \in rowSeqs }

\* variant: a reply without a status is taken for an error
QueryExchangeStatusRequired(reply) ==
    IF ~reply.transport THEN [rows |-> <<>>, err |-> "transport", code |-> 0]
    ELSE IF ~reply.status.present \/ reply.status.code # 0
         THEN [rows |-> <<>>, err |-> "status", code |-> reply.status.code]
    ELSE [rows |-> reply.rows, err |-> "nil", code |-> 0]

\* query: the part after the client has been created (client.Query, the
\* status test and the deferred client.Close)
QueryExchange(reply) ==
    IF ~reply.transport THEN [rows |-> <<>>, err |-> "transport", code |-> 0]
    ELSE IF reply.status.present /\ reply.status.code # 0
         THEN [rows |-> <<>>, err |-> "status", code |-> reply.status.code]
    ELSE [rows |-> reply.rows, err |-> "nil", code |-> 0]

query(reply) ==
    IF ~reply.conn THEN [rows |-> <<>>, err |-> "client", code |-> 0]
    ELSE QueryExchange(reply)

\* HealthCheck: the error of the trivial query, "nil" on success
HealthCheck(reply) ==
    IF ~reply.conn THEN "client"
    ELSE IF ~reply.transport THEN "transport"
    ELSE IF reply.status.present /\ reply.status.code # 0 THEN "status"
    ELSE "nil"

\* HealthCheck: the status code its error message carries (0: none)
HealthCheckCode(reply) ==
    IF HealthCheck(reply) = "status" THEN reply.status.code ELSE 0

\* the query texts: table, and the number after LIMIT when there is one
UsersQuery == [table |-> "users", hasLimit |-> FALSE, limit |-> 0]

ProcessesQuery(limit) ==
    [table |-> "processes", hasLimit |-> TRUE,
     limit |-> IF limit <= 0 THEN DefaultProcessLimit ELSE limit]

PortsQuery == [table |-> "listening_ports", hasLimit |-> FALSE, limit |-> 0]

\* variant: the packages query falls back to the processes default
PackagesQueryProcessDefault(limit) ==
    [table |-> "packages", hasLimit |-> TRUE,
     limit |-> IF limit <= 0 THEN DefaultProcessLimit ELSE limit]

PackagesQuery(limit) ==
    [table |-> "packages", hasLimit |-> TRUE,
     limit |-> IF limit <= 0 THEN DefaultPackageLimit ELSE limit]

HealthQuery == [table |-> "SELECT 1", hasLimit |-> FALSE, limit |-> 0]

\* variant: the rows of accounts with uid 0 are left out
OSQueryCollectUsersNoSystem(reply) ==
    [query(reply) EXCEPT !.rows = SelectSeq(@, LAMBDA u : u.uid # "0")]

OSQueryCollectUsers(reply) == query(reply)

OSQueryCollectProcesses(limit, reply) == query(reply)

RECURSIVE OSQueryPortsLoop(_, _, _)
OSQueryPortsLoop(rows, i, ports) ==
    IF i > Len(rows) THEN ports
    ELSE LET p == Sscanf(rows[i].port)
         IN IF p > 0 THEN OSQueryPortsLoop(rows, i + 1, Append(ports, p))
            ELSE OSQueryPortsLoop(rows, i + 1, ports)

\* variant: a failed query is turned into an empty list without an error
OSQueryCollectOpenPortsSwallow(reply) ==
    LET r == query(reply)
    IN IF r.err # "nil" THEN [rows |-> <<>>, err |-> "nil", code |-> 0]
       ELSE [rows |-> OSQueryPortsLoop(r.rows, 1, <<>>), err |-> "nil",
             code |-> 0]

OSQueryCollectOpenPorts(reply) ==
    LET r == query(reply)
    IN IF r.err # "nil" THEN [rows |-> <<>>, err |-> r.err, code |-> r.code]
       ELSE [rows |-> OSQueryPortsLoop(r.rows, 1, <<>>), err |-> "nil",
             code |-> 0]

OSQueryCollectPackages(limit, reply) == query(reply)

\* ---------------------------------------------------------------- analyzer
AllowedUsers == {"root", "admin"}
AllowedPorts == {22, 80, 443}

RECURSIVE AnalyzeUsersLoop(_, _, _)
AnalyzeUsersLoop(collectedUsers, i, v) ==
    IF i > Len(collectedUsers) THEN v
    ELSE LET username == collectedUsers[i].username
         IN IF username # "" /\ username \notin AllowedUsers
            THEN AnalyzeUsersLoop(collectedUsers, i + 1,
                     Append(v, [category |-> "user", subject |-> username]))
            ELSE AnalyzeUsersLoop(collectedUsers, i + 1, v)

AnalyzeUsers(collectedUsers) == AnalyzeUsersLoop(collectedUsers, 1, <<>>)

\* sort.Ints: insertion of each element into an ascending sequence
RECURSIVE InsertSorted(_, _)
InsertSorted(s, x) ==
    IF s = <<>> THEN <<x>>
    ELSE IF x <= Head(s) THEN <<x>> \o s
    ELSE <<Head(s)>> \o InsertSorted(Tail(s), x)

RECURSIVE SortInts(_)
SortInts(s) ==
    IF s = <<>> THEN <<>> ELSE InsertSorted(SortInts(Tail(s)), Head(s))

\* variant: a port equal to the one before it in the sorted list is skipped
RECURSIVE AnalyzePortsLoopDedup(_, _, _)
AnalyzePortsLoopDedup(openPorts, i, v) ==
    IF i > Len(openPorts) THEN v
    ELSE IF /\ openPorts[i] \notin AllowedPorts
            /\ (i = 1 \/ openPorts[i - 1] # openPorts[i])
         THEN AnalyzePortsLoopDedup(openPorts, i + 1,
                  Append(v, [category |-> "port", subject |-> openPorts[i]]))
    ELSE AnalyzePortsLoopDedup(openPorts, i + 1, v)

\* AnalyzePorts: the loop over the sorted ports
RECURSIVE AnalyzePortsLoop(_, _, _)
AnalyzePortsLoop(openPorts, i, v) ==
    IF i > Len(openPorts) THEN v
    ELSE IF openPorts[i] \notin AllowedPorts
         THEN AnalyzePortsLoop(openPorts, i + 1,
                  Append(v, [category |-> "port", subject |-> openPorts[i]]))
    ELSE AnalyzePortsLoop(openPorts, i + 1, v)

\* the violations, and the caller's slice as sort.Ints leaves it
AnalyzePorts(openPorts) ==
    [violations |-> AnalyzePortsLoop(SortInts(openPorts), 1, <<>>),
     openPorts |-> SortInts(openPorts)]

\* ------------------------------------------------------- lifecycle manager
FixedPaths ==
    <<"/usr/local/bin/osqueryd", "/usr/bin/osqueryd",
      "/opt/homebrew/bin/osqueryd", "/usr/local/opt/osquery/bin/osqueryd">>

FixedPathSet == { FixedPaths[i] : i \in 1..Len(FixedPaths) }

\* the entry exec.LookPath("osqueryd") resolves to
LookPathEntry == "$PATH/osqueryd"

Range(s) == { s[i] : i \in 1..Len(s) }

\* findOSQueryBinary up to the call of installOSQuery: the candidate list,
\* the paths given to os.Stat and the first one that exists ("" for none)
\* variant: the search-path entry is appended instead of prepended
CandidatePathsEntryLast(lookPathOK) ==
    IF lookPathOK THEN FixedPaths \o <<LookPathEntry>> ELSE FixedPaths

CandidatePaths(lookPathOK) ==
    IF lookPathOK THEN <<LookPathEntry>> \o FixedPaths ELSE FixedPaths

\* variant: the loop gives up after the first candidate that is missing
ProbeLoopFirstOnly(paths, existing, i) ==
    IF paths[i] \in existing
    THEN [path |-> paths[i], probed |-> SubSeq(paths, 1, i)]
    ELSE [path |-> "", probed |-> SubSeq(paths, 1, i)]

RECURSIVE ProbeLoop(_, _, _)
ProbeLoop(paths, existing, i) ==
    IF i > Len(paths) THEN [path |-> "", probed |-> paths]
    ELSE IF paths[i] \in existing
         THEN [path |-> paths[i], probed |-> SubSeq(paths, 1, i)]
    ELSE ProbeLoop(paths, existing, i + 1)

findOSQueryBinary(lookPathOK, existing) ==
    ProbeLoop(CandidatePaths(lookPathOK), existing, 1)

\* installers: has is the set of package managers exec.LookPath finds, ok
\* the set of commands that exit with status 0; in the result, cmds are the
\* commands run and absent the package managers exec.LookPath did not find
installOSQueryMacOS(has, ok) ==
    IF "brew" \in has
    THEN IF "brew install" \in ok
         THEN [path |-> "/opt/homebrew/bin/osqueryd", err |-> "nil",
               cmds |-> <<"brew install">>, absent |-> {}]
         ELSE [path |-> "", err |-> "homebrew install failed",
               cmds |-> <<"brew install">>, absent |-> {}]
    ELSE [path |-> "", err |-> "homebrew not available", cmds |-> <<>>,
          absent |-> {"brew"}]

\* variant: when an apt command fails, yum is tried as well
installOSQueryLinuxTryBoth(has, ok) ==
    IF "apt" \in has /\ {"apt update", "apt install"} \subseteq ok
    THEN [path |-> "/usr/bin/osqueryd", err |-> "nil",
          cmds |-> <<"apt update", "apt install">>, absent |-> {}]
    ELSE LET tried == IF "apt" \notin has THEN <<>>
                      ELSE IF "apt update" \notin ok THEN <<"apt update">>
                      ELSE <<"apt update", "apt install">>
             miss == IF "apt" \in has THEN {} ELSE {"apt"}
         IN IF "yum" \in has
            THEN IF "yum install" \in ok
                 THEN [path |-> "/usr/bin/osqueryd", err |-> "nil",
                       cmds |-> tried \o <<"yum install">>,
                       absent |-> miss]
                 ELSE [path |-> "", err |-> "yum install failed",
                       cmds |-> tried \o <<"yum install">>,
                       absent |-> miss]
            ELSE [path |-> "", err |-> "no package manager found",
                  cmds |-> tried, absent |-> miss \cup {"yum"}]

\* installOSQueryLinux: apt (update, then install), else yum
installOSQueryLinux(has, ok) ==
    IF "apt" \in has
    THEN IF "apt update" \notin ok
         THEN [path |-> "", err |-> "apt update failed",
               cmds |-> <<"apt update">>, absent |-> {}]
         ELSE IF "apt install" \notin ok
         THEN [path |-> "", err |-> "apt install failed",
               cmds |-> <<"apt update", "apt install">>, absent |-> {}]
         ELSE [path |-> "/usr/bin/osqueryd", err |-> "nil",
               cmds |-> <<"apt update", "apt install">>, absent |-> {}]
    ELSE IF "yum" \in has
    THEN IF "yum install" \in ok
         THEN [path |-> "/usr/bin/osqueryd", err |-> "nil",
               cmds |-> <<"yum install">>, absent |-> {"apt"}]
         ELSE [path |-> "", err |-> "yum install failed",
               cmds |-> <<"yum install">>, absent |-> {"apt"}]
    ELSE [path |-> "", err |-> "no package manager found", cmds |-> <<>>,
          absent |-> {"apt", "yum"}]

\* variant: every platform other than darwin is installed like linux
installOSQueryDefaultLinux(os, has, ok) ==
    IF os = "darwin" THEN installOSQueryMacOS(has, ok)
    ELSE installOSQueryLinux(has, ok)

\* installOSQuery: the switch on runtime.GOOS
installOSQuery(os, has, ok) ==
    IF os = "darwin" THEN installOSQueryMacOS(has, ok)
    ELSE IF os = "linux" THEN installOSQueryLinux(has, ok)
    ELSE [path |-> "", err |-> "unsupported OS", cmds |-> <<>>,
          absent |-> {}]

PackageManagers == {"brew", "apt", "yum"}
InstallCommands == {"brew install", "apt update", "apt install", "yum install"}

\* ------------------------------------------------------------------- state
VARIABLES
    goos,       \* runtime.GOOS
    pc,         \* position of main ("api": collectors called directly)
    c,          \* the collector main holds: "osquery" or "fallback"
    mgr,        \* EnsureOSQueryRunning: state and what it has done so far
                \* (hcs: per HealthCheck made, whether it returned nil;
                \* located: what the os.Stat loop found, "" for nothing;
                \* installs: calls of installOSQuery;
                \* daemon: the process started by cmd.Start())
    open,       \* connections to the socket that are open
    sent,       \* domain queries issued on the socket, in order
    faults,     \* operations whose call of the socket failed
    tools,      \* utilities run by the fallback collector, in order
    served,     \* per operation, the implementation that served it
    res,        \* users, procs, openPorts, packages of main
    errs,       \* per operation, the error it returned ("none": not called)
    logged,     \* operations whose error main logged with log.Printf
    violations, \* violations of main
    report,     \* <<>> or <<the report built and printed>>
    saved,      \* "none", or the result of SaveToFile
    posts,      \* messages handed to the Slack webhook, with their result
    call        \* the last direct call of a collector operation

vars ==
    <<goos, pc, c, mgr, open, sent, faults, tools, served, res, errs,
      logged, violations, report, saved, posts, call>>

Ops == {"users", "procs", "ports", "pkgs"}

\* variant: findOSQueryBinary returns an error when no candidate exists, so
\* that the manager may stop in NotFound
TerminalStatesWithNotFound ==
    {"Ready", "MkdirFailed", "InstallFailed", "FailedToStart", "NotFound"}

\* the states in which EnsureOSQueryRunning returns
TerminalStates == {"Ready", "MkdirFailed", "InstallFailed", "FailedToStart"}

InitCommon ==
    /\ goos \in GOOSValues
    /\ c = "osquery"
    /\ mgr = [state |-> "Unknown", hcs |-> <<>>, mkdirs |-> 0,
              locates |-> 0, probed |-> <<>>, located |-> "",
              binary |-> "", installs |-> 0, cmds |-> <<>>, absent |-> {},
              spawns |-> 0, daemon |-> "none", slept |-> 0,
              err |-> "none"]
    /\ open = 0
    /\ sent = <<>>
    /\ faults = {}
    /\ tools = <<>>
    /\ served = [op \in Ops |-> "none"]
    /\ res = [users |-> <<>>, procs |-> <<>>, ports |-> <<>>, pkgs |-> <<>>]
    /\ errs = [op \in Ops |-> "none"]
    /\ logged = {}
    /\ violations = <<>>
    /\ report = <<>>
    /\ saved = "none"
    /\ posts = <<>>
    /\ call = [impl |-> "none", op |-> "none"]

\* main after collector.NewOSQueryCollector()
Init == InitCommon /\ pc = "ensure"

runVars ==
    <<sent, faults, tools, served, res, errs, logged, violations, report,
      saved, posts>>

\* ---------------------------------------------------- EnsureOSQueryRunning
\* variant: the daemon is started whatever the first HealthCheck returned
AfterInitialCheckAlwaysStart(err) == "Absent"

\* the state after the first HealthCheck returned err
AfterInitialCheck(err) == IF err = "nil" THEN "Ready" ELSE "Absent"

\* variant: the result of the verification HealthCheck is not tested
AfterVerifyUnchecked(err) == "Ready"

\* variant: a failed verification starts the daemon over
AfterVerifyRetry(err) == IF err = "nil" THEN "Ready" ELSE "Absent"

\* the state after the HealthCheck that follows the settle delay
AfterVerify(err) == IF err = "nil" THEN "Ready" ELSE "FailedToStart"

\* variant: main rebinds only when the installation failed
SelectedCollectorInstallOnly(state) ==
    IF state = "InstallFailed" THEN "fallback" ELSE "osquery"

\* main: the collector held after EnsureOSQueryRunning ended in state
SelectedCollector(state) == IF state = "Ready" THEN "osquery" ELSE "fallback"

\* variant: the connection is closed on the success path only
OpenAfterCallLeakOnError(n, err) == IF err = "nil" THEN n - 1 ELSE n

\* defer client.Close(): the open connections after a call that opened one
\* returned err
OpenAfterCall(n, err) == n - 1

\* first HealthCheck: osquery.NewClient
InitialHealthCheckConnect ==
    /\ pc = "ensure" /\ mgr.state = "Unknown" /\ open = 0
    /\ \E ok \in BOOLEAN :
        IF ok
        THEN /\ open' = open + 1
             /\ mgr' = [mgr EXCEPT !.state = "Checking"]
        ELSE /\ open' = open
             /\ mgr' = [mgr EXCEPT
                          !.state = AfterInitialCheck(
                                        HealthCheck(NoConnection)),
                          !.hcs = Append(@, HealthCheck(NoConnection)
                                                = "nil")]
    /\ UNCHANGED <<goos, pc, c, call>>
    /\ UNCHANGED runVars

\* first HealthCheck: client.Query, status test, client.Close
InitialHealthCheckReply ==
    /\ pc = "ensure" /\ mgr.state = "Checking" /\ open = 1
    /\ \E reply \in Replies({<<>>}) :
        /\ reply.conn
        /\ mgr' = [mgr EXCEPT
                     !.state = AfterInitialCheck(HealthCheck(reply)),
                     !.hcs = Append(@, HealthCheck(reply) = "nil")]
        /\ open' = OpenAfterCall(open, HealthCheck(reply))
    /\ UNCHANGED <<goos, pc, c, call>>
    /\ UNCHANGED runVars

\* variant: the error of os.MkdirAll is not tested
AfterMkdirUnchecked(ok) == "Locating"

\* the state after os.MkdirAll returned (ok: without error)
AfterMkdir(ok) == IF ok THEN "Locating" ELSE "MkdirFailed"

\* startOSQueryDaemon: os.MkdirAll(socketDir)
CreateSocketDir ==
    /\ pc = "ensure" /\ mgr.state = "Absent"
    /\ \E ok \in BOOLEAN :
        mgr' = [mgr EXCEPT
                  !.state = AfterMkdir(ok),
                  !.mkdirs = IF ok THEN @ + 1 ELSE @,
                  !.err = IF ok THEN @
                          ELSE "failed to create socket directory"]
    /\ UNCHANGED <<goos, pc, c, open, call>>
    /\ UNCHANGED runVars

\* findOSQueryBinary: exec.LookPath and the os.Stat loop
Locate ==
    /\ pc = "ensure" /\ mgr.state = "Locating"
    /\ \E lookPathOK \in BOOLEAN :
       \E existing \in SUBSET Range(CandidatePaths(lookPathOK)) :
        LET r == findOSQueryBinary(lookPathOK, existing)
        IN mgr' = [mgr EXCEPT
                     !.state = IF r.path = "" THEN "NotFound" ELSE "Found",
                     !.locates = @ + 1,
                     !.probed = r.probed,
                     !.located = r.path,
                     !.binary = r.path]
    /\ UNCHANGED <<goos, pc, c, open, call>>
    /\ UNCHANGED runVars

\* findOSQueryBinary: return c.installOSQuery()
EnterInstalling ==
    /\ pc = "ensure" /\ mgr.state = "NotFound"
    /\ mgr' = [mgr EXCEPT !.state = "Installing"]
    /\ UNCHANGED <<goos, pc, c, open, call>>
    /\ UNCHANGED runVars

\* installOSQuery and the platform's installer
Install ==
    /\ pc = "ensure" /\ mgr.state = "Installing"
    /\ \E has \in SUBSET PackageManagers :
       \E ok \in SUBSET InstallCommands :
        LET r == installOSQuery(goos, has, ok)
        IN mgr' = [mgr EXCEPT
                     !.state = IF r.err = "nil" THEN "Found"
                               ELSE "InstallFailed",
                     !.installs = @ + 1,
                     !.cmds = @ \o r.cmds,
                     !.absent = r.absent,
                     !.binary = r.path,
                     !.err = IF r.err = "nil" THEN @ ELSE r.err]
    /\ UNCHANGED <<goos, pc, c, open, call>>
    /\ UNCHANGED runVars

\* variant: the error of cmd.Start() is not tested
AfterStartUnchecked(ok) == "Verifying"

\* variant: a launched daemon is taken to be ready, without verification
AfterStartNoVerify(ok) == IF ok THEN "Ready" ELSE "FailedToStart"

\* the state after cmd.Start() returned (ok: without error)
AfterStart(ok) == IF ok THEN "Verifying" ELSE "FailedToStart"

\* startOSQueryDaemon: exec.Command(osqueryPath, ...).Start()
StartDaemon ==
    /\ pc = "ensure" /\ mgr.state = "Found"
    /\ \E ok \in BOOLEAN :
        mgr' = [mgr EXCEPT
                  !.state = AfterStart(ok),
                  !.spawns = IF ok THEN @ + 1 ELSE @,
                  !.daemon = IF ok THEN "running" ELSE @,
                  !.err = IF ok THEN @
                          ELSE "failed to start osquery daemon"]
    /\ UNCHANGED <<goos, pc, c, open, call>>
    /\ UNCHANGED runVars

\* variant: a daemon that fails the verification is killed
DaemonAfterVerifyKill(daemon, err) ==
    IF err = "nil" THEN daemon ELSE "killed"

\* the daemon process after the verification HealthCheck returned err: the
\* exec.Cmd is local to startOSQueryDaemon and nothing calls Wait or Kill
DaemonAfterVerify(daemon, err) == daemon

\* time.Sleep(2 * time.Second)
Settle ==
    /\ pc = "ensure" /\ mgr.state = "Verifying" /\ mgr.slept = 0
    /\ mgr' = [mgr EXCEPT !.slept = @ + 1]
    /\ UNCHANGED <<goos, pc, c, open, call>>
    /\ UNCHANGED runVars

\* second HealthCheck: osquery.NewClient
VerifyConnect ==
    /\ pc = "ensure" /\ mgr.state = "Verifying" /\ mgr.slept = 1
    /\ open = 0
    /\ \E ok \in BOOLEAN :
        IF ok
        THEN /\ open' = open + 1
             /\ mgr' = mgr
        ELSE /\ open' = open
             /\ mgr' = [mgr EXCEPT
                          !.state = AfterVerify(HealthCheck(NoConnection)),
                          !.hcs = Append(@, HealthCheck(NoConnection)
                                                = "nil"),
                          !.daemon = DaemonAfterVerify(
                                         @, HealthCheck(NoConnection)),
                          !.err = "osquery failed to start properly"]
    /\ UNCHANGED <<goos, pc, c, call>>
    /\ UNCHANGED runVars

\* second HealthCheck: client.Query, status test, client.Close
VerifyReply ==
    /\ pc = "ensure" /\ mgr.state = "Verifying" /\ open = 1
    /\ \E reply \in Replies({<<>>}) :
        /\ reply.conn
        /\ mgr' = [mgr EXCEPT
                     !.state = AfterVerify(HealthCheck(reply)),
                     !.hcs = Append(@, HealthCheck(reply) = "nil"),
                     !.daemon = DaemonAfterVerify(@, HealthCheck(reply)),
                     !.err = IF HealthCheck(reply) = "nil" THEN @
                             ELSE "osquery failed to start properly"]
        /\ open' = OpenAfterCall(open, HealthCheck(reply))
    /\ UNCHANGED <<goos, pc, c, call>>
    /\ UNCHANGED runVars

\* main: the result of EnsureOSQueryRunning selects the collector
SelectCollector ==
    /\ pc = "ensure" /\ mgr.state \in TerminalStates
    /\ c' = SelectedCollector(mgr.state)
    /\ pc' = "users"
    /\ UNCHANGED <<goos, mgr, open, call>>
    /\ UNCHANGED runVars

\* ------------------------------------------------------ main: collection
NextPc(op) ==
    CASE op = "users" -> "procs"
      [] op = "procs" -> "ports"
      [] op = "ports" -> "pkgs"
      [] op = "pkgs" -> "analyze"

\* variant: main rebinds to the fallback collector when a call fails
DeliverPerCallFallback(op, r, impl) ==
    /\ c' = IF r.err # "nil" THEN "fallback" ELSE c
    /\ served' = [served EXCEPT ![op] = impl]
    /\ errs' = [errs EXCEPT ![op] = r.err]
    /\ IF r.err # "nil" /\ op \in {"users", "procs"}
       THEN /\ pc' = "fatal"
            /\ UNCHANGED <<res, logged>>
       ELSE /\ pc' = NextPc(op)
            /\ res' = [res EXCEPT ![op] = r.rows]
            /\ logged' = IF r.err # "nil" THEN logged \cup {op} ELSE logged

\* variant: only an error of users is fatal
DeliverProcessesOptional(op, r, impl) ==
    /\ c' = c
    /\ served' = [served EXCEPT ![op] = impl]
    /\ errs' = [errs EXCEPT ![op] = r.err]
    /\ IF r.err # "nil" /\ op \in {"users"}
       THEN /\ pc' = "fatal"
            /\ UNCHANGED <<res, logged>>
       ELSE /\ pc' = NextPc(op)
            /\ res' = [res EXCEPT ![op] = r.rows]
            /\ logged' = IF r.err # "nil" THEN logged \cup {op} ELSE logged

\* main's handling of what a collection operation returned: log.Fatalf for
\* users and processes, log.Printf for open ports and packages
Deliver(op, r, impl) ==
    /\ c' = c
    /\ served' = [served EXCEPT ![op] = impl]
    /\ errs' = [errs EXCEPT ![op] = r.err]
    /\ IF r.err # "nil" /\ op \in {"users", "procs"}
       THEN /\ pc' = "fatal"
            /\ UNCHANGED <<res, logged>>
       ELSE /\ pc' = NextPc(op)
            /\ res' = [res EXCEPT ![op] = r.rows]
            /\ logged' = IF r.err # "nil" THEN logged \cup {op} ELSE logged

QueryOf(op) ==
    CASE op = "users" -> UsersQuery
      [] op = "procs" -> ProcessesQuery(MainProcessLimit)
      [] op = "ports" -> PortsQuery
      [] op = "pkgs" -> PackagesQuery(MainPackageLimit)

BackendReplyRows(op) ==
    CASE op = "users" -> SeqsUpTo(RunUserRows, MaxRunLines)
      [] op = "procs" -> SeqsUpTo(RunProcessRows, MaxRunLines)
      [] op = "ports" -> SeqsUpTo(RunPortRows, MaxRunPorts)
      [] op = "pkgs" -> SeqsUpTo(RunPackageRows, MaxRunLines)

OSQueryCollect(op, reply) ==
    CASE op = "users" -> OSQueryCollectUsers(reply)
      [] op = "procs" -> OSQueryCollectProcesses(MainProcessLimit, reply)
      [] op = "ports" -> OSQueryCollectOpenPorts(reply)
      [] op = "pkgs" -> OSQueryCollectPackages(MainPackageLimit, reply)

\* a collection operation of the osquery collector: osquery.NewClient
OSQueryConnect ==
    /\ pc \in Ops /\ c = "osquery" /\ open = 0
    /\ \E ok \in BOOLEAN :
        IF ok
        THEN /\ open' = open + 1
             /\ UNCHANGED <<pc, c, served, res, errs, logged, faults>>
        ELSE /\ open' = open
             /\ faults' = faults \cup {pc}
             /\ Deliver(pc, OSQueryCollect(pc, NoConnection), "osquery")
    /\ UNCHANGED <<goos, mgr, sent, tools, violations, report, saved,
                   posts, call>>

\* a collection operation of the osquery collector: client.Query, the
\* status test, client.Close and the operation's own processing
OSQueryReply ==
    /\ pc \in Ops /\ c = "osquery" /\ open = 1
    /\ \E reply \in Replies(BackendReplyRows(pc)) :
        /\ reply.conn
        /\ faults' = IF reply.transport /\ reply.status.code = 0
                      THEN faults ELSE faults \cup {pc}
        /\ Deliver(pc, OSQueryCollect(pc, reply), "osquery")
        /\ open' = OpenAfterCall(open, query(reply).err)
    /\ sent' = Append(sent, QueryOf(pc))
    /\ UNCHANGED <<goos, mgr, tools, violations, report, saved, posts,
                   call>>

PsOutputs(S, n) == { <<PsHeader>> \o body : body \in SeqsUpTo(S, n) }

\* the listing of the package manager the fallback collector reads
PackageLines(os) == IF os = "darwin" THEN RunBrewLines ELSE RunDpkgLines

FallbackUsers ==
    /\ pc = "users" /\ c = "fallback"
    /\ \E cmdOK \in BOOLEAN : \E lines \in SeqsUpTo(RunUserLines, MaxRunLines) :
        Deliver("users", FallbackCollectUsers(goos, cmdOK, lines), "fallback")
    /\ tools' = IF goos = "linux" THEN Append(tools, "getent")
                ELSE IF goos = "darwin" THEN Append(tools, "dscl")
                ELSE tools
    /\ UNCHANGED <<goos, mgr, open, sent, faults, violations, report,
                   saved, posts, call>>

FallbackProcesses ==
    /\ pc = "procs" /\ c = "fallback"
    /\ \E cmdOK \in BOOLEAN : \E lines \in PsOutputs(RunPsLines, MaxRunLines) :
        Deliver("procs",
                FallbackCollectProcesses(goos, MainProcessLimit, cmdOK, lines),
                "fallback")
    /\ tools' = IF goos \in {"darwin", "linux"} THEN Append(tools, "ps")
                ELSE tools
    /\ UNCHANGED <<goos, mgr, open, sent, faults, violations, report,
                   saved, posts, call>>

FallbackOpenPorts ==
    /\ pc = "ports" /\ c = "fallback"
    /\ \E cmdOK \in BOOLEAN :
       \E lines \in SeqsUpTo(RunNetstatLines, MaxRunPorts) :
        Deliver("ports", FallbackCollectOpenPorts(goos, cmdOK, lines),
                "fallback")
    /\ tools' = IF goos \in {"darwin", "linux"} THEN Append(tools, "netstat")
                ELSE tools
    /\ UNCHANGED <<goos, mgr, open, sent, faults, violations, report,
                   saved, posts, call>>

FallbackPackages ==
    /\ pc = "pkgs" /\ c = "fallback"
    /\ \E found \in BOOLEAN : \E cmdOK \in BOOLEAN :
       \E lines \in SeqsUpTo(PackageLines(goos), MaxRunLines) :
        /\ Deliver("pkgs",
                   FallbackCollectPackages(goos, MainPackageLimit, found,
                                           cmdOK, lines),
                   "fallback")
        /\ tools' = IF goos = "darwin" /\ found THEN Append(tools, "brew")
                    ELSE IF goos = "linux" /\ found
                    THEN Append(tools, "dpkg")
                    ELSE tools
    /\ UNCHANGED <<goos, mgr, open, sent, faults, violations, report,
                   saved, posts, call>>

\* ------------------------------------- main: evaluation, report, alerting
\* AnalyzeUsers and AnalyzePorts; AnalyzePorts sorts main's openPorts
Analyze ==
    /\ pc = "analyze"
    /\ violations' = AnalyzeUsers(res.users)
                       \o AnalyzePorts(res.ports).violations
    /\ res' = [res EXCEPT !.ports = AnalyzePorts(res.ports).openPorts]
    /\ pc' = "report"
    /\ UNCHANGED <<goos, c, mgr, open, sent, faults, tools, served, errs,
                   logged, report, saved, posts, call>>

\* the report is built and printed, then SaveToFile
BuildReport ==
    /\ pc = "report"
    /\ report' = << [users |-> res.users, processes |-> res.procs,
                     openPorts |-> res.ports, packages |-> res.pkgs,
                     violations |-> violations] >>
    /\ \E ok \in BOOLEAN : saved' = IF ok THEN "nil" ELSE "write failed"
    /\ pc' = "slackTest"
    /\ UNCHANGED <<goos, c, mgr, open, sent, faults, tools, served, res, errs,
                   logged, violations, posts, call>>

\* SlackClient.TestConnection: no post without a webhook URL
SlackTestConnection ==
    /\ pc = "slackTest"
    /\ \E configured \in BOOLEAN : \E ok \in BOOLEAN :
        IF ~configured
        THEN /\ posts' = posts
             /\ pc' = "done"
        ELSE /\ posts' = Append(posts, [kind |-> "test", ok |-> ok])
             /\ pc' = IF ok THEN "slackReport" ELSE "done"
    /\ UNCHANGED <<goos, c, mgr, open, sent, faults, tools, served, res, errs,
                   logged, violations, report, saved, call>>

\* variant: the alert is skipped when the report message was not delivered
AfterSendReportOnSuccess(ok, n) ==
    IF ok /\ n > 0 THEN "slackAlert" ELSE "done"

\* main after SendComplianceReport returned (ok: without error) in a run
\* with n violations
AfterSendReport(ok, n) == IF n > 0 THEN "slackAlert" ELSE "done"

\* SlackClient.SendComplianceReport
SlackSendReport ==
    /\ pc = "slackReport"
    /\ \E ok \in BOOLEAN :
        /\ posts' = Append(posts, [kind |-> "report", ok |-> ok])
        /\ pc' = AfterSendReport(ok, Len(violations))
    /\ UNCHANGED <<goos, c, mgr, open, sent, faults, tools, served, res, errs,
                   logged, violations, report, saved, call>>

\* SlackClient.SendViolationAlert
SlackSendAlert ==
    /\ pc = "slackAlert"
    /\ \E ok \in BOOLEAN :
        posts' = Append(posts, [kind |-> "alert", ok |-> ok])
    /\ pc' = "done"
    /\ UNCHANGED <<goos, c, mgr, open, sent, faults, tools, served, res, errs,
                   logged, violations, report, saved, call>>

Next ==
    \/ InitialHealthCheckConnect
    \/ InitialHealthCheckReply
    \/ CreateSocketDir
    \/ Locate
    \/ EnterInstalling
    \/ Install
    \/ StartDaemon
    \/ Settle
    \/ VerifyConnect
    \/ VerifyReply
    \/ SelectCollector
    \/ OSQueryConnect
    \/ OSQueryReply
    \/ FallbackUsers
    \/ FallbackProcesses
    \/ FallbackOpenPorts
    \/ FallbackPackages
    \/ Analyze
    \/ BuildReport
    \/ SlackTestConnection
    \/ SlackSendReport
    \/ SlackSendAlert

Spec == Init /\ [][Next]_vars

\* ------------------------------------- EnsureOSQueryRunning on its own
\* the steps of EnsureOSQueryRunning, up to main's test of its result
NextEnsure ==
    \/ InitialHealthCheckConnect
    \/ InitialHealthCheckReply
    \/ CreateSocketDir
    \/ Locate
    \/ EnterInstalling
    \/ Install
    \/ StartDaemon
    \/ Settle
    \/ VerifyConnect
    \/ VerifyReply
    \/ SelectCollector

\* the code is sequential and every call it makes (socket, os.Stat,
\* package manager, cmd.Start, time.Sleep) returns: a step that can be taken
\* is eventually taken
SpecEnsure == Init /\ [][NextEnsure]_vars /\ WF_vars(NextEnsure)

\* --------------------------------- the collectors' operations, called alone
\* A caller other than main may pass any limit and meet any tool output.
\* The collectors keep no state between calls (SocketPath and Timeout are
\* never written), so a behaviour makes one call: pc goes "api" -> "called".
InitAPI == InitCommon /\ pc = "api"

\* no output is read from a utility that could not be run
OutputsOf(cmdOK, outputs) == IF cmdOK THEN outputs ELSE {<<>>}

FallbackCall(op, limit, found, cmdOK, lines, r) ==
    [impl |-> "fallback", op |-> op, limit |-> limit, found |-> found,
     cmdOK |-> cmdOK, lines |-> lines, rows |-> r.rows, err |-> r.err]

OSQueryCall(op, limit, q, reply, r) ==
    [impl |-> "osquery", op |-> op, limit |-> limit, query |-> q,
     reply |-> reply, rows |-> r.rows, err |-> r.err, code |-> r.code]

apiVars == <<goos, c, mgr, open>>

CallFallbackUsers ==
    /\ pc = "api"
    /\ \E cmdOK \in BOOLEAN :
       \E lines \in OutputsOf(cmdOK, SeqsUpTo(UserLines, MaxLines)) :
        call' = FallbackCall("users", 0, TRUE, cmdOK, lines,
                             FallbackCollectUsers(goos, cmdOK, lines))
    /\ pc' = "called"
    /\ UNCHANGED apiVars
    /\ UNCHANGED runVars

CallFallbackProcesses ==
    /\ pc = "api"
    /\ \E limit \in MinLimit..MaxLimit : \E cmdOK \in BOOLEAN :
       \E lines \in OutputsOf(cmdOK, PsOutputs(PsLines, MaxLines)) :
        call' = FallbackCall("procs", limit, TRUE, cmdOK, lines,
                    FallbackCollectProcesses(goos, limit, cmdOK, lines))
    /\ pc' = "called"
    /\ UNCHANGED apiVars
    /\ UNCHANGED runVars

CallFallbackOpenPorts ==
    /\ pc = "api"
    /\ \E cmdOK \in BOOLEAN :
       \E lines \in OutputsOf(cmdOK, SeqsUpTo(NetstatLines, MaxLines)) :
        call' = FallbackCall("ports", 0, TRUE, cmdOK, lines,
                             FallbackCollectOpenPorts(goos, cmdOK, lines))
    /\ pc' = "called"
    /\ UNCHANGED apiVars
    /\ UNCHANGED runVars

CallFallbackPackages ==
    /\ pc = "api"
    /\ \E limit \in MinLimit..MaxLimit :
       \E found \in BOOLEAN : \E cmdOK \in BOOLEAN :
       \E lines \in OutputsOf(found /\ cmdOK,
                     SeqsUpTo(IF goos = "darwin" THEN BrewLines
                              ELSE DpkgLines, MaxLines)) :
        call' = FallbackCall("pkgs", limit, found, found /\ cmdOK, lines,
                    FallbackCollectPackages(goos, limit, found, cmdOK, lines))
    /\ pc' = "called"
    /\ UNCHANGED apiVars
    /\ UNCHANGED runVars

CallOSQueryUsers ==
    /\ pc = "api"
    /\ \E reply \in Replies(SeqsUpTo(BackendUserRows, MaxLines)) :
        call' = OSQueryCall("users", 0, UsersQuery, reply,
                            OSQueryCollectUsers(reply))
    /\ pc' = "called"
    /\ UNCHANGED apiVars
    /\ UNCHANGED runVars

CallOSQueryProcesses ==
    /\ pc = "api"
    /\ \E limit \in MinLimit..MaxLimit :
       \E reply \in Replies(SeqsUpTo(BackendProcessRows, MaxLines)) :
        call' = OSQueryCall("procs", limit, ProcessesQuery(limit), reply,
                            OSQueryCollectProcesses(limit, reply))
    /\ pc' = "called"
    /\ UNCHANGED apiVars
    /\ UNCHANGED runVars

CallOSQueryOpenPorts ==
    /\ pc = "api"
    /\ \E reply \in Replies(SeqsUpTo(BackendPortRows, MaxLines)) :
        call' = OSQueryCall("ports", 0, PortsQuery, reply,
                            OSQueryCollectOpenPorts(reply))
    /\ pc' = "called"
    /\ UNCHANGED apiVars
    /\ UNCHANGED runVars

CallOSQueryPackages ==
    /\ pc = "api"
    /\ \E limit \in MinLimit..MaxLimit :
       \E reply \in Replies(SeqsUpTo(BackendPackageRows, MaxLines)) :
        call' = OSQueryCall("pkgs", limit, PackagesQuery(limit), reply,
                            OSQueryCollectPackages(limit, reply))
    /\ pc' = "called"
    /\ UNCHANGED apiVars
    /\ UNCHANGED runVars

CallOSQueryHealthCheck ==
    /\ pc = "api"
    /\ \E reply \in Replies({<<>>}) :
        call' = [impl |-> "osquery", op |-> "health", limit |-> 0,
                 query |-> HealthQuery, reply |-> reply, rows |-> <<>>,
                 err |-> HealthCheck(reply), code |-> HealthCheckCode(reply)]
    /\ pc' = "called"
    /\ UNCHANGED apiVars
    /\ UNCHANGED runVars

\* findOSQueryBinary called on a file system in which exactly the paths in
\* existing exist (its call of installOSQuery is left to Install)
CallFindOSQueryBinary ==
    /\ pc = "api"
    /\ \E lookPathOK \in BOOLEAN :
       \E existing \in SUBSET (FixedPathSet \cup
                    (IF lookPathOK THEN {LookPathEntry} ELSE {})) :
        LET r == findOSQueryBinary(lookPathOK, existing)
        IN call' = [impl |-> "osquery", op |-> "locate",
                    lookPathOK |-> lookPathOK, existing |-> existing,
                    path |-> r.path, probed |-> r.probed,
                    state |-> IF r.path = "" THEN "NotFound" ELSE "Found"]
    /\ pc' = "called"
    /\ UNCHANGED apiVars
    /\ UNCHANGED runVars

\* installOSQuery called where exec.LookPath finds the package managers in
\* has and exactly the commands in ok exit with status 0; state is the
\* lifecycle state the result leads to
CallInstallOSQuery ==
    /\ pc = "api"
    /\ \E has \in SUBSET PackageManagers :
       \E ok \in SUBSET InstallCommands :
        LET r == installOSQuery(goos, has, ok)
        IN call' = [impl |-> "osquery", op |-> "install",
                    has |-> has, ok |-> ok,
                    path |-> r.path, err |-> r.err, cmds |-> r.cmds,
                    state |-> IF r.err = "nil" THEN "Found"
                              ELSE "InstallFailed"]
    /\ pc' = "called"
    /\ UNCHANGED apiVars
    /\ UNCHANGED runVars

\* sample arguments of the analyzer: rows by their username, and ports
AnalyzerUserRows ==
    { [username |-> "root"], [username |-> "alice"], [username |-> ""],
      [username |-> "bob"] }

AnalyzerPorts == {22, 8080, 3000}

\* analyzer.AnalyzeUsers called with main's policies
CallAnalyzeUsers ==
    /\ pc = "api"
    /\ \E users \in SeqsUpTo(AnalyzerUserRows, MaxLines) :
        call' = [impl |-> "analyzer", op |-> "AnalyzeUsers",
                 users |-> users, violations |-> AnalyzeUsers(users)]
    /\ pc' = "called"
    /\ UNCHANGED apiVars
    /\ UNCHANGED runVars

\* analyzer.AnalyzePorts called with main's policies
CallAnalyzePorts ==
    /\ pc = "api"
    /\ \E ports \in SeqsUpTo(AnalyzerPorts, MaxLines) :
        call' = [impl |-> "analyzer", op |-> "AnalyzePorts",
                 ports |-> ports,
                 violations |-> AnalyzePorts(ports).violations,
                 openPorts |-> AnalyzePorts(ports).openPorts]
    /\ pc' = "called"
    /\ UNCHANGED apiVars
    /\ UNCHANGED runVars

NextAPI ==
    \/ CallFallbackUsers
    \/ CallFallbackProcesses
    \/ CallFallbackOpenPorts
    \/ CallFallbackPackages
    \/ CallOSQueryUsers
    \/ CallOSQueryProcesses
    \/ CallOSQueryOpenPorts
    \/ CallOSQueryPackages
    \/ CallOSQueryHealthCheck
    \/ CallFindOSQueryBinary
    \/ CallInstallOSQuery
    \/ CallAnalyzeUsers
    \/ CallAnalyzePorts

SpecAPI == InitAPI /\ [][NextAPI]_vars

\* ================================================================== claims
PastEnsure == pc \notin {"ensure", "api", "called"}

Failed(op) == errs[op] \notin {"none", "nil"}

Minimum(a, b) == IF a <= b THEN a ELSE b

\* the first n elements of s (all of s when it is shorter, none when n <= 0)
Take(s, n) == SubSeq(s, 1, IF n <= 0 THEN 0 ELSE Minimum(n, Len(s)))

MapRow(s, F(_)) == [i \in 1..Len(s) |-> F(s[i])]

\* C1: within one run the collector is selected before the first collection
\* operation and never changes afterwards; every collection operation of the
\* run is served by that one implementation, whatever errors are returned.
\* (Nothing is served while the selection is still being made, every
\* operation served so far was served by the collector main holds, and no
\* step taken after the selection changes that collector.)
SingleCollectorPerRun ==
    /\ [](pc = "ensure" => \A op \in Ops : served[op] = "none")
    /\ [](\A op \in Ops : served[op] \in {"none", c})
    /\ [][pc # "ensure" => c' = c]_vars

\* C1 witness: a run that reached its end on the fallback collector although
\* an operation returned an error
SingleCollectorWitness ==
    /\ pc = "done"
    /\ \A op \in Ops : served[op] = "fallback"
    /\ Failed("ports")

\* C2: the facade keeps the osquery collector exactly when
\* EnsureOSQueryRunning ends in Ready; after every other outcome main holds
\* the fallback collector from before the first collection operation to the
\* end of the run.
BackendKeptIffReady ==
    /\ pc = "ensure" =>
        /\ c = "osquery"
        /\ \A op \in Ops : served[op] = "none"
        /\ sent = <<>> /\ tools = <<>>
    /\ PastEnsure =>
        /\ mgr.state \in TerminalStates
        /\ c = "osquery" <=> mgr.state = "Ready"
        /\ c = "fallback" <=> mgr.state # "Ready"

\* C2 witness: the run ended on the fallback collector after the daemon was
\* launched and the verification health-check failed
BackendKeptIffReadyWitness ==
    /\ pc = "done"
    /\ c = "fallback"
    /\ mgr.state = "FailedToStart"
    /\ mgr.spawns = 1
    /\ mgr.hcs = <<FALSE, FALSE>>

\* C3: a domain query reaches the socket only after a health-check of the
\* run has succeeded; the health-check is never skipped; and when every
\* health-check of the run failed no connection is opened and no query is
\* issued for a collection operation.
QueryOnlyAfterHealthCheck ==
    /\ PastEnsure => Len(mgr.hcs) >= 1
    /\ sent # <<>> => \E i \in 1..Len(mgr.hcs) : mgr.hcs[i]
    /\ (pc \in Ops /\ open > 0) => \E i \in 1..Len(mgr.hcs) : mgr.hcs[i]
    /\ (\A i \in 1..Len(mgr.hcs) : ~mgr.hcs[i]) =>
        /\ sent = <<>>
        /\ faults = {}
        /\ \A op \in Ops : served[op] # "osquery"

\* C3 witness: all four domain queries were issued in a run whose first
\* health-check failed and whose verification succeeded
QueryOnlyAfterHealthCheckWitness ==
    /\ Len(sent) = 4
    /\ mgr.hcs = <<FALSE, TRUE>>

\* C4: when the first health-check succeeds, EnsureOSQueryRunning makes
\* that one health-check and nothing else (no directory, no probe, no
\* installer, no spawn, no delay) and returns success.
ReadyBackendNoProvisioning ==
    (Len(mgr.hcs) >= 1 /\ mgr.hcs[1]) =>
        /\ Len(mgr.hcs) = 1
        /\ mgr.state = "Ready"
        /\ mgr.err = "none"
        /\ mgr.mkdirs = 0
        /\ mgr.locates = 0 /\ mgr.probed = <<>>
        /\ mgr.cmds = <<>>
        /\ mgr.spawns = 0
        /\ mgr.slept = 0
        /\ open = 0 \/ pc \in Ops
        /\ PastEnsure => c = "osquery"

\* C4 witness: the first health-check succeeded and main went on to collect
ReadyBackendWitness ==
    /\ pc = "users"
    /\ mgr.hcs = <<TRUE>>
    /\ mgr.state = "Ready"

\* C5 (as claimed): with a limit <= 0 a bounded operation of either
\* collector behaves as if called with the default, 50 for processes and
\* 100 for packages.
NonPositiveLimitIsDefault ==
    (pc = "called" /\ call.op \in {"procs", "pkgs"} /\ call.limit <= 0) =>
        /\ (call.impl = "osquery" /\ call.op = "procs") =>
              call.query.hasLimit /\ call.query.limit = 50
        /\ (call.impl = "osquery" /\ call.op = "pkgs") =>
              call.query.hasLimit /\ call.query.limit = 100
        /\ (call.impl = "fallback" /\ call.op = "procs") =>
              call.rows = FallbackCollectProcesses(goos, 50, call.cmdOK,
                                                   call.lines).rows
        /\ (call.impl = "fallback" /\ call.op = "pkgs") =>
              call.rows = FallbackCollectPackages(goos, 100, call.found,
                                                  call.cmdOK, call.lines).rows

\* C6: with a limit L > 0 the fallback collector's CollectProcesses(L) and
\* CollectPackages(L) return at most L rows, and the osquery collector's
\* query text carries LIMIT L.
PositiveLimitBoundsRows ==
    (pc = "called" /\ call.op \in {"procs", "pkgs"} /\ call.limit > 0) =>
        /\ call.impl = "fallback" => Len(call.rows) <= call.limit
        /\ call.impl = "osquery" =>
              call.query.hasLimit /\ call.query.limit = call.limit

\* C6 witness: the listing had more well-formed lines than the limit and the
\* fallback collector returned exactly limit rows
PositiveLimitWitness ==
    /\ pc = "called"
    /\ call.impl = "fallback" /\ call.op = "procs"
    /\ call.limit = 1
    /\ Len(call.lines) = 3
    /\ \A i \in 2..3 : Len(call.lines[i]) >= 11
    /\ Len(call.rows) = 1

\* C7 (as claimed): while the fallback collector is active no collection
\* operation returns an error and the run is never aborted.
FallbackNeverFails ==
    c = "fallback" =>
        /\ \A op \in Ops : ~Failed(op)
        /\ pc # "fatal"

\* C8: the fallback collector drops a malformed line alone: the rows
\* returned are those of the well-formed lines, in order, up to the limit
\* (which only well-formed lines consume), and no error is raised.
WellFormedUserLine(l) == Len(l) >= 7
WellFormedPsLine(l) == Len(l) >= 11
InstalledPackageLine(l) == Len(l) >= 1 /\ l[1] = "ii"
WellFormedPackageLine(l) == InstalledPackageLine(l) /\ Len(l) >= 3
DpkgRow(l) ==
    [name |-> l[2], version |-> l[3], source |-> "dpkg", arch |-> GOARCH]

MalformedLineDroppedAlone ==
    (pc = "called" /\ call.impl = "fallback" /\ call.cmdOK) =>
        /\ (call.op = "users" /\ goos = "linux") =>
              /\ call.err = "nil"
              /\ call.rows = MapRow(SelectSeq(call.lines, WellFormedUserLine),
                                    FallbackUserRowLinux)
        /\ (call.op = "procs" /\ goos \in {"darwin", "linux"}) =>
              /\ call.err = "nil"
              /\ call.rows =
                   Take(MapRow(SelectSeq(Tail(call.lines), WellFormedPsLine),
                               FallbackProcessRow), call.limit)
        /\ (call.op = "pkgs" /\ goos = "linux") =>
              /\ call.err = "nil"
              /\ call.rows =
                   Take(MapRow(SelectSeq(call.lines, WellFormedPackageLine),
                               DpkgRow), call.limit)

\* C8 witness: a truncated ps line stood between two well-formed ones, the
\* limit was 2 and both well-formed lines were returned
MalformedLineWitness ==
    /\ pc = "called"
    /\ call.impl = "fallback" /\ call.op = "procs" /\ call.cmdOK
    /\ call.limit = 2
    /\ Len(call.lines) = 4
    /\ Len(call.lines[2]) >= 11
    /\ Len(call.lines[3]) = 10
    /\ Len(call.lines[4]) >= 11
    /\ Len(call.rows) = 2

\* C9: once the osquery collector is the selected one, a failing call of the
\* socket is returned to main as an error, no operation of the run is served
\* by the fallback collector and main keeps the osquery collector.
BackendFailureSurfaced ==
    /\ [](faults # {} =>
            /\ c = "osquery"
            /\ tools = <<>>
            /\ \A op \in faults : Failed(op) /\ served[op] = "osquery"
            /\ \A op \in Ops : served[op] # "fallback")
    /\ [][(pc \in Ops /\ c = "osquery") => c' = "osquery"]_vars

\* C9 witness: the ports query failed and the packages operation was still
\* served by the osquery collector
BackendFailureWitness ==
    /\ pc = "done"
    /\ "ports" \in faults
    /\ served["pkgs"] = "osquery"

\* C10: an error from users or processes ends the run on the spot (no later
\* collection, evaluation, report or alert); an error from open ports or
\* packages is logged, the run goes on and the report's field is empty.
RequiredFatalOptionalLogged ==
    /\ (Failed("users") \/ Failed("procs")) =>
        /\ pc = "fatal"
        /\ Failed("users") => served["procs"] = "none"
        /\ served["ports"] = "none" /\ served["pkgs"] = "none"
        /\ logged = {}
        /\ violations = <<>> /\ report = <<>> /\ saved = "none"
        /\ posts = <<>>
    /\ pc = "fatal" => (Failed("users") \/ Failed("procs"))
    /\ \A op \in {"ports", "pkgs"} :
        (Failed(op) <=> op \in logged) /\ (Failed(op) => res[op] = <<>>)
    /\ pc \in {"slackTest", "slackReport", "slackAlert", "done"} =>
        /\ Len(report) = 1
        /\ Failed("ports") => report[1].openPorts = <<>>
        /\ Failed("pkgs") => report[1].packages = <<>>

\* C10 witness: both optional operations failed and the run still reached
\* its end with a report whose two fields are empty
OptionalFailureWitness ==
    /\ pc = "done"
    /\ Failed("ports") /\ Failed("pkgs")
    /\ Len(report) = 1
    /\ report[1].openPorts = <<>> /\ report[1].packages = <<>>
    /\ report[1].users # <<>>

\* ------------------------------------------------------------ C11 .. C20
\* the position of a lifecycle state in the single pass of
\* EnsureOSQueryRunning (every stop comes last)
StateRank(state) ==
    CASE state = "Unknown" -> 0
      [] state = "Checking" -> 1
      [] state = "Absent" -> 2
      [] state = "Locating" -> 3
      [] state = "NotFound" -> 4
      [] state = "Installing" -> 5
      [] state = "Found" -> 6
      [] state = "Verifying" -> 7
      [] state \in TerminalStates -> 8

\* the package manager a command belongs to
ManagerOf(cmd) ==
    CASE cmd = "brew install" -> "brew"
      [] cmd \in {"apt update", "apt install"} -> "apt"
      [] cmd = "yum install" -> "yum"

\* the package managers the commands in cmds belong to
ManagersOf(cmds) == {ManagerOf(cmds[i]) : i \in 1..Len(cmds)}

\* C11: the lifecycle manager makes a single pass per run: at most two
\* health-checks (the initial one and one verification), at most one locate,
\* at most one package-manager installation attempt (one call of the
\* installer, the commands of one package manager, none of them twice), at
\* most one daemon spawn, and no step re-enters an earlier state; a state
\* reached by a failure is never left.
SinglePassPerRun ==
    /\ [](/\ Len(mgr.hcs) <= 2
          /\ mgr.locates <= 1
          /\ mgr.installs <= 1
          /\ Cardinality(ManagersOf(mgr.cmds)) <= 1
          /\ \A i, j \in 1..Len(mgr.cmds) :
                mgr.cmds[i] = mgr.cmds[j] => i = j
          /\ mgr.spawns <= 1)
    /\ [][StateRank(mgr'.state) >= StateRank(mgr.state)]_vars
    /\ [][mgr.state \in TerminalStates => mgr'.state = mgr.state]_vars

\* C11 witness: a pass that used everything once (both health-checks, the
\* locate, the two apt commands, the spawn) and ended in a failure
SinglePassWitness ==
    /\ mgr.state = "FailedToStart"
    /\ mgr.hcs = <<FALSE, FALSE>>
    /\ mgr.locates = 1 /\ mgr.installs = 1
    /\ mgr.cmds = <<"apt update", "apt install">>
    /\ mgr.spawns = 1
    /\ PastEnsure

\* C12: every execution of the lifecycle manager eventually stops, and it
\* stops in exactly one outcome: Ready (success, no error) or a failed state
\* (with an error); it never stops in Checking, Absent, Locating, Found,
\* NotFound, Installing, Starting or Verifying, and the outcome it stopped
\* in stays.
EnsureTerminates ==
    /\ <>(pc # "ensure")
    /\ [](pc # "ensure" =>
            /\ mgr.state \in {"Ready", "MkdirFailed", "InstallFailed",
                              "FailedToStart"}
            /\ mgr.state \notin {"Unknown", "Checking", "Absent",
                                 "Locating", "Found", "NotFound",
                                 "Installing", "Starting", "Verifying"}
            /\ (mgr.state = "Ready") = (mgr.err = "none")
            /\ open = 0)
    /\ [][pc # "ensure" => mgr' = mgr]_vars

\* C12 witness: the manager stopped in a failed state after the installer
\* ran
EnsureTerminatesWitness ==
    /\ pc # "ensure"
    /\ mgr.state = "InstallFailed"
    /\ mgr.cmds = <<"yum install">>

\* the backend did not answer the first health-check, no candidate path
\* held a binary, installOSQuery was called, and the platform is
\* unrecognized or none of its package managers is on the search path
NoInstallerAvailable ==
    /\ Len(mgr.hcs) >= 1 /\ ~mgr.hcs[1]
    /\ mgr.locates = 1 /\ mgr.located = ""
    /\ mgr.installs = 1
    /\ \/ goos \notin {"darwin", "linux"}
       \/ goos = "darwin" /\ "brew" \in mgr.absent
       \/ goos = "linux" /\ {"apt", "yum"} \subseteq mgr.absent

\* the manager ended in InstallFailed without installer and spawn, main
\* holds the fallback collector, and the collect-users call was served by
\* it without any use of the socket
InstallFailedThenFallback ==
    /\ mgr.state = "InstallFailed"
    /\ mgr.cmds = <<>> /\ mgr.spawns = 0 /\ Len(mgr.hcs) = 1
    /\ PastEnsure => c = "fallback"
    /\ served["users"] # "none" =>
         /\ served["users"] = "fallback"
         /\ sent = <<>> /\ faults = {} /\ open = 0

\* C13 as stated: in that case the manager ends in InstallFailed without
\* running an installer or spawning a process, main rebinds to the fallback
\* collector, and the collect-users call runs the account-listing utility
\* and opens no socket connection.
NoInstallerFallbackUsesUtility ==
    NoInstallerAvailable =>
        /\ InstallFailedThenFallback
        /\ served["users"] # "none" =>
             /\ Len(tools) >= 1
             /\ tools[1] \in {"getent", "dscl"}

\* C13 amended: as above, but the collect-users call runs the
\* account-listing utility only on darwin and linux; on an unrecognized
\* platform it runs no utility at all and returns no rows and no error.
NoInstallerFallbackByPlatform ==
    NoInstallerAvailable =>
        /\ InstallFailedThenFallback
        /\ served["users"] # "none" =>
             IF goos \in {"darwin", "linux"}
             THEN Len(tools) >= 1 /\ tools[1] \in {"getent", "dscl"}
             ELSE /\ \A i \in 1..Len(tools) :
                       tools[i] \notin {"getent", "dscl"}
                  /\ res["users"] = <<>> /\ errs["users"] = "nil"

\* C13 witness: on linux without apt and yum the users were collected by
\* getent after the manager had ended in InstallFailed
NoInstallerWitness ==
    /\ NoInstallerAvailable
    /\ goos = "linux"
    /\ pc = "procs"
    /\ served["users"] = "fallback"
    /\ tools = <<"getent">>
    /\ Len(res["users"]) = 1

\* the installer has been reached: the manager is in Installing, or
\* installOSQuery was called, or a package-manager command was run
InstallerReached ==
    mgr.state = "Installing" \/ mgr.installs > 0 \/ mgr.cmds # <<>>

\* C14: Installing is entered only from NotFound: the installer is reached
\* only after the initial health-check failed and every candidate path (the
\* search-path entry when there is one, and all four fixed paths) was probed
\* and found missing; when the locate found a candidate, no installer is
\* run in that run.
InstallOnlyAfterNotFound ==
    /\ [](InstallerReached =>
            /\ Len(mgr.hcs) >= 1 /\ ~mgr.hcs[1]
            /\ mgr.locates = 1 /\ mgr.located = ""
            /\ {"/usr/local/bin/osqueryd", "/usr/bin/osqueryd",
                "/opt/homebrew/bin/osqueryd",
                "/usr/local/opt/osquery/bin/osqueryd"}
                    \subseteq Range(mgr.probed)
            /\ Len(mgr.probed) \in {4, 5}
            /\ Len(mgr.probed) = 5 => mgr.probed[1] = LookPathEntry)
    /\ [](mgr.located # "" => ~InstallerReached)
    /\ [][mgr'.state = "Installing" /\ mgr.state # "Installing"
            => mgr.state = "NotFound"]_vars

\* C14 witness: the installer ran after all five candidates were missing
InstallOnlyAfterNotFoundWitness ==
    /\ mgr.cmds = <<"brew install">>
    /\ Len(mgr.probed) = 5
    /\ mgr.located = ""
    /\ mgr.state = "Found"

\* a backend call (HealthCheck or query) is between its connect and its
\* return
BackendCallInFlight ==
    \/ pc = "ensure" /\ mgr.state \in {"Checking", "Verifying"}
    \/ pc \in Ops /\ c = "osquery"

\* C15: every socket connection the backend client opens, for a query or a
\* health-check, is closed before the call returns, on success and on every
\* error path: at most one connection is open at any time, one is open only
\* while a backend call is in flight, the step that ends the call closes
\* it, and after any sequence of backend calls none is open.
ConnectionsClosed ==
    /\ [](open \in {0, 1})
    /\ [](open = 1 => BackendCallInFlight)
    /\ [](pc \notin Ops /\ pc # "ensure" => open = 0)
    /\ [][open = 1 => open' = 0]_vars
    /\ [][pc' # pc => open' = 0]_vars
    /\ [][Len(mgr'.hcs) > Len(mgr.hcs) => open' = 0]_vars

\* C15 witness: after two health-checks and four queries, one of which
\* failed after the connection had been opened, no connection is open
ConnectionsClosedWitness ==
    /\ pc = "analyze"
    /\ open = 0
    /\ Len(mgr.hcs) = 2
    /\ Len(sent) = 4
    /\ Failed("pkgs")

\* the reply makes a backend call fail: no connection, a failed transport,
\* or a status with a code other than 0
FailingReply(reply) ==
    \/ ~reply.conn
    \/ ~reply.transport
    \/ reply.status.present /\ reply.status.code # 0

\* C16: a backend call (a query of any collection operation, or
\* HealthCheck) returns an error exactly when the socket cannot be opened,
\* the transport fails, or the reply has a status with a non-zero code, and
\* then the error carries that code; it succeeds exactly when the
\* connection opens, the exchange succeeds and the status is absent or has
\* code 0, and a query then returns the rows of the reply.
BackendCallOutcome ==
    pc = "called" /\ call.impl = "osquery"
                  /\ call.op \in Ops \cup {"health"} =>
        /\ (call.err # "nil") = FailingReply(call.reply)
        /\ (call.err = "nil") =
             /\ call.reply.conn /\ call.reply.transport
             /\ \/ ~call.reply.status.present
                \/ call.reply.status.code = 0
        /\ (call.err = "client") = ~call.reply.conn
        /\ (call.err = "transport") =
             (call.reply.conn /\ ~call.reply.transport)
        /\ call.err = "status" =>
             /\ call.code = call.reply.status.code
             /\ call.code # 0
        /\ call.err # "nil" => call.rows = <<>>
        /\ call.err = "nil" /\ call.op \in {"users", "procs", "pkgs"} =>
             call.rows = call.reply.rows

\* C16 witness: a query answered with status code 1 returned the error
\* with that code
BackendCallOutcomeWitness ==
    /\ pc = "called" /\ call.impl = "osquery"
    /\ call.op = "procs"
    /\ call.reply.status.present /\ call.reply.status.code = 1
    /\ call.err = "status" /\ call.code = 1

\* C17: in the osquery collector the number after LIMIT in the query text
\* is the caller's limit when that is greater than 0, 50 for the processes
\* query and 100 for the packages query when it is 0 or less (a packages
\* limit of -5 gives LIMIT 100).
EffectiveQueryLimit ==
    pc = "called" /\ call.impl = "osquery"
                  /\ call.op \in {"procs", "pkgs"} =>
        /\ call.query.hasLimit
        /\ call.query.table =
             (IF call.op = "procs" THEN "processes" ELSE "packages")
        /\ call.limit > 0 => call.query.limit = call.limit
        /\ call.limit <= 0 /\ call.op = "procs" => call.query.limit = 50
        /\ call.limit <= 0 /\ call.op = "pkgs" => call.query.limit = 100

\* C17 witness: the packages query of a call with limit -5
EffectiveQueryLimitWitness ==
    /\ pc = "called" /\ call.impl = "osquery"
    /\ call.op = "pkgs"
    /\ call.limit = 0 - 5
    /\ call.query.limit = 100

\* the backend answered the call: the connection opened, the exchange
\* succeeded and the status is absent or has code 0
HealthyReply(reply) ==
    /\ reply.conn /\ reply.transport
    /\ ~reply.status.present \/ reply.status.code = 0

\* C18: when the backend is healthy and the osquery collector is the
\* active one, CollectUsers returns exactly the rows of the backend's reply
\* to the users query: as many rows, in the same order, each with the same
\* keys and the same values, and no error.
UsersRowsUnmodified ==
    pc = "called" /\ call.impl = "osquery" /\ call.op = "users"
                  /\ HealthyReply(call.reply) =>
        /\ c = "osquery"
        /\ call.query = UsersQuery
        /\ call.err = "nil"
        /\ Len(call.rows) = Len(call.reply.rows)
        /\ \A i \in 1..Len(call.reply.rows) :
             /\ DOMAIN call.rows[i] = DOMAIN call.reply.rows[i]
             /\ \A k \in DOMAIN call.reply.rows[i] :
                  call.rows[i][k] = call.reply.rows[i][k]

\* C18 witness: the backend replied with the rows of root and alice, in
\* that order, and CollectUsers returned two rows
UsersRowsUnmodifiedWitness ==
    /\ pc = "called" /\ call.impl = "osquery" /\ call.op = "users"
    /\ HealthyReply(call.reply)
    /\ Len(call.reply.rows) = 2
    /\ call.reply.rows[1].username = "root"
    /\ call.reply.rows[2].username = "alice"
    /\ Len(call.rows) = 2

\* C19 (as claimed): the policy evaluator is a pure function: AnalyzeUsers
\* and AnalyzePorts leave the collected users and the collected port list
\* unchanged, so the port list placed in the report is the list that was
\* collected, element for element and in the same order.
PolicyEvaluatorPure ==
    /\ [][pc = "analyze" => res' = res]_vars
    /\ [][pc = "report" /\ Len(report') = 1 =>
            report'[1].openPorts = res["ports"]]_vars

\* the order of C20: the search-path entry when exec.LookPath resolves the
\* binary, then the four fixed paths
ClaimedOrder(lookPathOK) ==
    (IF lookPathOK THEN <<"$PATH/osqueryd">> ELSE <<>>)
    \o <<"/usr/local/bin/osqueryd", "/usr/bin/osqueryd",
         "/opt/homebrew/bin/osqueryd",
         "/usr/local/opt/osquery/bin/osqueryd">>

\* C20: Locating returns the first existing file in the order: the binary
\* resolved through the executable search path (if resolvable), then
\* /usr/local/bin/osqueryd, /usr/bin/osqueryd, /opt/homebrew/bin/osqueryd,
\* /usr/local/opt/osquery/bin/osqueryd; it reports NotFound (and hands over
\* to Installing) only when none of them exists.
LocateFirstExisting ==
    pc = "called" /\ call.op = "locate" =>
        LET order == ClaimedOrder(call.lookPathOK)
            hits == {i \in 1..Len(order) : order[i] \in call.existing}
        IN /\ hits # {} =>
                /\ call.state = "Found"
                /\ \E i \in hits :
                     /\ call.path = order[i]
                     /\ \A j \in hits : i <= j
           /\ hits = {} => call.state = "NotFound" /\ call.path = ""
           /\ (call.state = "NotFound") = (hits = {})

\* C20 witness: the search-path entry and the third fixed path exist, the
\* first two fixed paths do not; the search-path entry is returned
LocateFirstExistingWitness ==
    /\ pc = "called" /\ call.op = "locate"
    /\ call.lookPathOK
    /\ call.existing = {"$PATH/osqueryd", "/opt/homebrew/bin/osqueryd"}
    /\ call.path = "$PATH/osqueryd"

\* ------------------------------------------------------------ C21 .. C30
\* the first command of cmds that is not in ok, 0 when all of them are
FirstFailed(cmds, ok) ==
    IF \A i \in 1..Len(cmds) : cmds[i] \in ok THEN 0
    ELSE CHOOSE i \in 1..Len(cmds) :
            /\ cmds[i] \notin ok
            /\ \A j \in 1..(i - 1) : cmds[j] \in ok

\* C21: on linux the installer uses only the first package manager present
\* in the order apt, yum: with apt on the search path its commands are run
\* and yum is not; yum is run only when apt is absent and yum is present;
\* when a command of the chosen manager fails, that command is the last one
\* run and the manager ends in InstallFailed without trying the other one.
FirstPresentManagerOnly ==
    pc = "called" /\ call.op = "install" /\ goos = "linux" =>
        /\ "apt" \in call.has =>
             /\ Len(call.cmds) >= 1 /\ call.cmds[1] = "apt update"
             /\ ManagersOf(call.cmds) = {"apt"}
        /\ "yum install" \in Range(call.cmds) =>
             /\ "apt" \notin call.has /\ "yum" \in call.has
             /\ call.cmds = <<"yum install">>
        /\ "apt" \notin call.has /\ "yum" \in call.has =>
             call.cmds = <<"yum install">>
        /\ call.has \cap {"apt", "yum"} = {} =>
             call.cmds = <<>> /\ call.state = "InstallFailed"
        /\ FirstFailed(call.cmds, call.ok) # 0 =>
             /\ FirstFailed(call.cmds, call.ok) = Len(call.cmds)
             /\ call.state = "InstallFailed"
             /\ call.err # "nil"
        /\ call.cmds # <<>> /\ FirstFailed(call.cmds, call.ok) = 0 =>
             /\ call.state = "Found"
             /\ call.cmds \in {<<"apt update", "apt install">>,
                                <<"yum install">>}

\* C21 witness: apt and yum are both present, apt install fails although
\* yum install would succeed; only the apt commands were run
FirstPresentManagerWitness ==
    /\ pc = "called" /\ call.op = "install" /\ goos = "linux"
    /\ {"apt", "yum"} \subseteq call.has
    /\ "apt install" \notin call.ok /\ "yum install" \in call.ok
    /\ call.cmds = <<"apt update", "apt install">>
    /\ call.state = "InstallFailed"

\* cmd.Start() returned an error
SpawnFailed == mgr.err = "failed to start osquery daemon"

\* C22: when launching the daemon binary fails, the manager ends in
\* FailedToStart at once: no settle delay and no verification health-check
\* follow (the one health-check made is the initial one), no process was
\* spawned, and the error makes main hold the fallback collector, which
\* serves every operation of the run.
SpawnFailureEndsRun ==
    /\ [](SpawnFailed =>
            /\ mgr.state = "FailedToStart"
            /\ mgr.slept = 0
            /\ Len(mgr.hcs) = 1
            /\ mgr.spawns = 0
            /\ open = 0
            /\ PastEnsure => c = "fallback"
            /\ \A op \in Ops : served[op] \in {"none", "fallback"}
            /\ sent = <<>>)
    /\ [][mgr.state = "Found" /\ mgr'.state # "Found" =>
            \/ mgr'.state = "FailedToStart" /\ SpawnFailed'
                  /\ mgr'.spawns = mgr.spawns
            \/ mgr'.state = "Verifying" /\ ~SpawnFailed'
                  /\ mgr'.spawns = mgr.spawns + 1]_vars

\* C22 witness: the binary was found, the launch failed, and the users were
\* collected by the fallback collector
SpawnFailureWitness ==
    /\ SpawnFailed
    /\ mgr.located # ""
    /\ pc = "procs"
    /\ served["users"] = "fallback"

\* C23: after a successful daemon launch the manager makes exactly one
\* verification health-check, and makes it after the settle delay: while it
\* is still to come the manager is in Verifying; once made, the manager is
\* in Ready when it succeeded and in FailedToStart when it failed; no
\* further health-check or spawn follows.
SingleVerification ==
    /\ [](mgr.spawns >= 1 =>
            /\ mgr.spawns = 1
            /\ mgr.state \in {"Verifying", "Ready", "FailedToStart"}
            /\ Len(mgr.hcs) \in {1, 2}
            /\ (mgr.state = "Verifying") = (Len(mgr.hcs) = 1)
            /\ Len(mgr.hcs) = 2 =>
                 /\ mgr.slept = 1
                 /\ mgr.state = IF mgr.hcs[2] THEN "Ready"
                                 ELSE "FailedToStart"
            /\ PastEnsure => Len(mgr.hcs) = 2)
    /\ [][mgr.spawns = 1 /\ Len(mgr'.hcs) > Len(mgr.hcs) =>
            mgr.slept = 1 /\ mgr.state = "Verifying"]_vars
    /\ [][mgr.spawns = 1 /\ Len(mgr.hcs) = 2 =>
            mgr'.hcs = mgr.hcs /\ mgr'.spawns = mgr.spawns
            /\ mgr'.state = mgr.state]_vars

\* C23 witness: the launched daemon answered the verification health-check
\* and the run went on with the osquery collector
SingleVerificationWitness ==
    /\ mgr.spawns = 1
    /\ mgr.hcs = <<FALSE, TRUE>>
    /\ mgr.state = "Ready"
    /\ pc = "procs" /\ served["users"] = "osquery"

\* the port text is a decimal integer greater than 0
PositiveIntegerText(text) == Atoi(text).ok /\ Atoi(text).v > 0

PositivePortRow(row) == PositiveIntegerText(row.port)

PortOfRow(row) == Atoi(row.port).v

\* C24 (as claimed): the listening-ports operation of the osquery collector
\* returns only positive integers: a row whose port text is not a number, or
\* is a number <= 0, is dropped; a row whose port text is a positive integer
\* is kept, in order; dropping rows never makes the call fail.
BackendPortsPositiveOnly ==
    pc = "called" /\ call.impl = "osquery" /\ call.op = "ports"
                  /\ HealthyReply(call.reply) =>
        /\ call.err = "nil"
        /\ \A i \in 1..Len(call.rows) : call.rows[i] > 0
        /\ call.rows = MapRow(SelectSeq(call.reply.rows, PositivePortRow),
                              PortOfRow)

\* the line `tcp 0 0 0.0.0.0:8080 0.0.0.0:* LISTEN`
ListenLine8080 ==
    << <<"tcp">>, <<"0">>, <<"0">>, <<"0.0.0.0", "8080">>,
       <<"0.0.0.0", "*">>, <<"LISTEN">> >>

\* the line has a listening/tcp marker and a 4th field whose text after
\* the last colon is a positive integer
PortLine(line) ==
    /\ \E i \in 1..Len(line) : \E j \in 1..Len(line[i]) :
          line[i][j] \in {"LISTEN", "tcp", "tcp6"}
    /\ Len(line) >= 4
    /\ Len(line[4]) >= 2
    /\ PositiveIntegerText(line[4][Len(line[4])])

PortOfLine(line) == Atoi(line[4][Len(line[4])]).v

\* the number of positions of s that hold x
Occurrences(s, x) == Cardinality({i \in 1..Len(s) : s[i] = x})

\* C25: the fallback listening-ports operation adds, for each output line
\* with a listening/tcp marker, the integer after the last colon of the
\* 4th field when that is a positive integer, once per such line and in the
\* order of the lines, and nothing for any other line; the line
\* `tcp 0 0 0.0.0.0:8080 0.0.0.0:* LISTEN` yields 8080 once per occurrence.
FallbackPortsPerLine ==
    pc = "called" /\ call.impl = "fallback" /\ call.op = "ports"
                  /\ goos \in {"darwin", "linux"} /\ call.cmdOK =>
        /\ call.err = "nil"
        /\ call.rows = MapRow(SelectSeq(call.lines, PortLine), PortOfLine)
        /\ Occurrences(call.rows, 8080)
              = Occurrences(call.lines, ListenLine8080)

\* C25 witness: an output of a header, the 8080 line and a tcp6 line with
\* port 22 gave the ports 8080 and 22
FallbackPortsPerLineWitness ==
    /\ pc = "called" /\ call.impl = "fallback" /\ call.op = "ports"
    /\ goos = "linux" /\ call.cmdOK
    /\ Len(call.lines) = 3
    /\ call.lines[2] = ListenLine8080
    /\ Len(call.lines[1]) = 5
    /\ call.rows = <<8080, 22>>

\* C26: the fallback packages operation never returns an error: when the
\* platform's package-manager binary is not on the search path, or its
\* invocation fails, the result is an empty list and no error.
FallbackPackagesNeverFail ==
    pc = "called" /\ call.impl = "fallback" /\ call.op = "pkgs" =>
        /\ call.err = "nil"
        /\ ~call.found \/ ~call.cmdOK => call.rows = <<>>

\* C26 witness: dpkg is on the search path and its invocation failed
FallbackPackagesNeverFailWitness ==
    /\ pc = "called" /\ call.impl = "fallback" /\ call.op = "pkgs"
    /\ goos = "linux"
    /\ call.found /\ ~call.cmdOK
    /\ call.limit > 0
    /\ call.rows = <<>> /\ call.err = "nil"

\* C27: the daemon launched by the manager is fire-and-forget: from a
\* successful spawn on it is running and no step of the agent changes that,
\* so it is still running when the run has ended, also in runs where the
\* verification health-check failed and the fallback collector was used.
DaemonFireAndForget ==
    /\ []((mgr.spawns = 1) = (mgr.daemon = "running"))
    /\ [](mgr.spawns = 0 => mgr.daemon = "none")
    /\ [][mgr.daemon = "running" => mgr'.daemon = "running"]_vars
    /\ [](pc \in {"done", "fatal"} /\ mgr.spawns = 1 =>
            mgr.daemon = "running")

\* C27 witness: a run that ended on the fallback collector after the
\* launched daemon failed the verification
DaemonFireAndForgetWitness ==
    /\ pc = "done"
    /\ mgr.spawns = 1
    /\ mgr.state = "FailedToStart"
    /\ c = "fallback"
    /\ mgr.daemon = "running"

\* the manager has gone on to locating, installing or spawning
ProvisioningStarted ==
    \/ mgr.locates >= 1 \/ mgr.probed # <<>>
    \/ mgr.installs >= 1 \/ mgr.cmds # <<>>
    \/ mgr.spawns >= 1
    \/ mgr.state \in {"Locating", "NotFound", "Installing", "Found",
                      "Verifying", "InstallFailed", "FailedToStart"}

\* C28: when the initial health-check fails, the socket's parent directory
\* is created before the binary is located or installed; when the creation
\* fails the manager ends in failure without probing a path, running an
\* installer or spawning a process; when it succeeds the directory has been
\* created, and stays, also in runs that end in NotFound / InstallFailed.
SocketDirFirst ==
    /\ [](ProvisioningStarted =>
            /\ mgr.mkdirs = 1
            /\ Len(mgr.hcs) >= 1 /\ ~mgr.hcs[1])
    /\ [](mgr.mkdirs = 1 => Len(mgr.hcs) >= 1 /\ ~mgr.hcs[1])
    /\ [](mgr.err = "failed to create socket directory" =>
            /\ mgr.state = "MkdirFailed"
            /\ mgr.mkdirs = 0
            /\ ~ProvisioningStarted
            /\ PastEnsure => c = "fallback")
    /\ [](mgr.state \in {"NotFound", "Installing", "InstallFailed"} =>
            mgr.mkdirs = 1)
    /\ [][mgr.state = "Absent" /\ mgr'.state # "Absent" =>
            \/ mgr'.state = "Locating" /\ mgr'.mkdirs = 1
            \/ mgr'.state = "MkdirFailed" /\ mgr'.mkdirs = 0]_vars
    /\ [][mgr'.mkdirs >= mgr.mkdirs]_vars

\* C28 witness: the directory was created and the run ended on the fallback
\* collector after no package manager was found
SocketDirFirstWitness ==
    /\ pc = "done"
    /\ mgr.state = "InstallFailed"
    /\ mgr.err = "no package manager found"
    /\ mgr.mkdirs = 1

\* a row the users policy objects to
UnexpectedUserRow(row) ==
    row.username # "" /\ row.username \notin {"root", "admin"}

UserViolationOf(row) == [category |-> "user", subject |-> row.username]

\* C29: AnalyzeUsers returns one violation per row whose username is
\* non-empty and not allowed, in the order of the rows, and none for the
\* other rows; AnalyzePorts returns one violation per occurrence of a port
\* that is not allowed (duplicates are not merged), in ascending port order.
AnalyzerViolations ==
    /\ pc = "called" /\ call.op = "AnalyzeUsers" =>
         call.violations
            = MapRow(SelectSeq(call.users, UnexpectedUserRow),
                     UserViolationOf)
    /\ pc = "called" /\ call.op = "AnalyzePorts" =>
         /\ \A i \in 1..Len(call.violations) :
              /\ call.violations[i].category = "port"
              /\ call.violations[i].subject \notin {22, 80, 443}
         /\ \A i, j \in 1..Len(call.violations) :
              i <= j => call.violations[i].subject
                          <= call.violations[j].subject
         /\ \A p \in Range(call.ports) \ {22, 80, 443} :
              Cardinality({i \in 1..Len(call.violations) :
                             call.violations[i].subject = p})
                = Occurrences(call.ports, p)
         /\ Len(call.violations)
              = Cardinality({i \in 1..Len(call.ports) :
                               call.ports[i] \notin {22, 80, 443}})

\* C29 witness: the ports 8080, 3000, 8080 gave the violations 3000, 8080,
\* 8080
AnalyzerViolationsWitness ==
    /\ pc = "called" /\ call.op = "AnalyzePorts"
    /\ call.ports = <<8080, 3000, 8080>>
    /\ Len(call.violations) = 3
    /\ call.violations[1].subject = 3000
    /\ call.violations[3].subject = 8080

\* the kinds of the messages posted so far, in order
PostKinds == [i \in 1..Len(posts) |-> posts[i].kind]

AlertingPcs == {"slackTest", "slackReport", "slackAlert"}

====
